---- MODULE Spec2Model ----
(***************************************************************************)
(* A model of the node protocol engine of src/src/node/node.rs: the        *)
(* listener and its per-connection read loops, the message router          *)
(* (handle_incoming_messages), and the proposal coordinator                *)
(* (broadcast_proposal, wait_for_acknowledgments), over the State Store    *)
(* and the Acknowledgment Tracker, each behind its own mutex.              *)
(***************************************************************************)
EXTENDS Integers, Sequences, FiniteSets, Bags, TLC

\* ---------------------------------------------------------------- bounds
NumNodes == 3
MaxProposals == 1
MaxWaits == 1
\* Environment events: an I/O failure, or a connection made from outside the
\* coordinator and the router.
MaxEnvEvents == 1
\* mpsc::channel(n): the capacity the wiring gives the inbound channel
\* (main.rs uses 32; the engine takes any bounded channel).
ChannelCapacity == 2

\* ------------------------------------------------------------- data types
Node == 1..NumNodes

\* state.rs: enum State
State == {"Init", "Running", "Stopped"}

\* message.rs: enum MessageType
MessageType == {"Proposal", "Acknowledgment", "Commit"}

\* Proposal ids: 1.. are the ids broadcast_proposal mints, in minting order;
\* HandBuiltId is an id minted by a caller that builds its messages by hand
\* (tests/node_tests.rs, test_acknowledgment).
HandBuiltId == 0
ProposalId == HandBuiltId..MaxProposals

\* The states a proposal may carry: a new state, other than the initial one.
Proposable == State \ {"Init"}

\* message.rs: struct Message
Message ==
    [sender_id : Node, message_type : MessageType,
     proposed_state : State, proposal_id : ProposalId]

NoMessage ==
    [sender_id |-> 0, message_type |-> "None",
     proposed_state |-> "Init", proposal_id |-> 0]

\* main.rs: node 1 listens on 127.0.0.1:8080, node 2 on 127.0.0.1:8081.
BasePort == 8080

AddressOf(id) == BasePort + id - 1

ListenerAt(address) == address - BasePort + 1

\* A PeerTable (Node.peers): peer id -> address.
PeerTable(ids) == [id \in ids |-> AddressOf(id)]

\* The wirings considered: nodes 1..k are constructed, each with the others as
\* its peers (k = 2 is the two-node system of main.rs); an id above k names no
\* node of the system.
Mesh(k) == [n \in Node |-> IF n <= k THEN PeerTable((1..k) \ {n}) ELSE PeerTable({})]

Topologies == {Mesh(k) : k \in 2..NumNodes}

\* The node whose application code calls the coordinator (node1 in main.rs).
Proposers == {1}

\* ------------------------------------------------------------ wire format
\* serde_json::to_vec(message): the four fields in declaration order.
Encode(m) == <<m.sender_id, m.message_type, m.proposed_state, m.proposal_id>>

\* Bytes that are not a JSON Message: not an object of the four fields, or an
\* unknown variant token.
Garbage == <<"garbage">>
BadVariant == <<1, "Bogus", "Running", 1>>

\* serde_json::from_slice::<Message>(bytes).is_ok()
DecodeOk(bytes) ==
    /\ Len(bytes) = 4
    /\ bytes[2] \in MessageType
    /\ bytes[3] \in State

\* serde_json::from_slice::<Message>(bytes) when it is Ok
Decode(bytes) ==
    [sender_id |-> bytes[1], message_type |-> bytes[2],
     proposed_state |-> bytes[3], proposal_id |-> bytes[4]]

\* ------------------------------------------------------------------ state
VARIABLES
    peers,       \* Node.peers of each node (fixed at construction)
    shared,      \* TRUE: all nodes hold the same Arcs (main.rs, tests); FALSE: own stores
    capacity,    \* the n of mpsc::channel(n) the wiring gives each inbound channel
    state,       \* the State Store(s): Arc<Mutex<State>>
    acks,        \* the Acknowledgment Tracker(s): proposal_id -> set of sender ids
    stateGuard,  \* holder of each State Store mutex
    acksGuard,   \* holder of each tracker mutex
    lst,         \* listener position of each node
    backlog,     \* connections established with a node's address, not yet accepted
    tasks,       \* spawned per-connection read loops of each node (a bag)
    chan,        \* the inbound mpsc channel of each node
    router,      \* handle_incoming_messages position of each node
    coord,       \* the coordinator call in progress on each node
    nextPid,     \* stands for Uuid::new_v4(): the next fresh proposal id
    nextCall,    \* numbers the coordinator calls
    externals,   \* connections made so far by callers outside the coordinator
    envBudget,   \* environment events (I/O failures, outside connections) still to come
    sends,       \* history: every send_message attempt (a bag)
    returned,    \* history: coordinator calls that returned
    recorded,    \* history: Acknowledgments the routers finished handling (a bag)
    overwrites,  \* history: Proposals whose state overwrite is done
    dropped,     \* history: per node, reads that failed to decode
    served       \* history: per node, messages forwarded from a connection accepted after a decode failure

vars ==
    <<peers, shared, capacity, state, acks, stateGuard, acksGuard, lst, backlog, tasks,
      chan, router, coord, nextPid, nextCall, externals, envBudget, sends,
      returned, recorded, overwrites, dropped, served>>

wiring == <<peers, shared, capacity>>
stores == <<state, acks>>
guards == <<stateGuard, acksGuard>>
transport == <<lst, backlog, tasks, chan>>
history == <<sends, returned, recorded, overwrites, dropped, served>>

NoTask == <<"none", 0>>
RouterTask(n) == <<"router", n>>
CoordTask(n) == <<"coord", n>>

\* The nodes the wiring constructs and starts.
Wired(n) == DOMAIN peers[n] # {}

\* Which store / tracker a node's Arc points to.
StoreOf(n) == IF shared THEN 1 ELSE n

EmptyMap == [p \in {} |-> {}]

IdleCoord ==
    [pc |-> "idle", call |-> 0, proposal_id |-> 0, new_state |-> "Init",
     todo |-> {}, majority |-> 0, ack_count |-> 0]

\* The state after construction, for a wiring whose channels have capacity size.
InitWith(size) ==
    /\ peers \in Topologies
    /\ shared \in BOOLEAN
    /\ capacity = size
    /\ state = [s \in Node |-> "Init"]
    /\ acks = [t \in Node |-> EmptyMap]
    /\ stateGuard = [s \in Node |-> NoTask]
    /\ acksGuard = [t \in Node |-> NoTask]
    /\ lst = [n \in Node |-> "init"]
    /\ backlog = [n \in Node |-> <<>>]
    /\ tasks = [n \in Node |-> EmptyBag]
    /\ chan = [n \in Node |-> <<>>]
    /\ router = [n \in Node |-> [pc |-> "recv", msg |-> NoMessage]]
    /\ coord = [n \in Node |-> IdleCoord]
    /\ nextPid = 1
    /\ nextCall = 1
    /\ externals = 0
    /\ envBudget \in 0..MaxEnvEvents
    /\ sends = EmptyBag
    /\ returned = {}
    /\ recorded = EmptyBag
    /\ overwrites = {}
    /\ dropped = [n \in Node |-> 0]
    /\ served = [n \in Node |-> 0]

Init == InitWith(ChannelCapacity)

\* ----------------------------------------------------------- send_message
\* TcpStream::connect(address) succeeds when a listener is bound there.
CanConnect(address) ==
    /\ ListenerAt(address) \in Node
    /\ lst[ListenerAt(address)] = "listening"

\* send_message(message, address) with outcome ok: on Ok the serialized message
\* is one new connection at the address, closed after the write; an Err is a
\* refused connection or an I/O failure of the environment.
send_message(message, address, ok) ==
    /\ ok => CanConnect(address)
    /\ ~ok => (~CanConnect(address) \/ envBudget > 0)
    /\ backlog' = IF ok
                  THEN [backlog EXCEPT ![ListenerAt(address)] = Append(@, <<Encode(message)>>)]
                  ELSE backlog
    /\ envBudget' = IF ~ok /\ CanConnect(address) THEN envBudget - 1 ELSE envBudget

SendEvent(n, call, kind, address, message, ok) ==
    [node |-> n, call |-> call, kind |-> kind, to |-> address, msg |-> message, ok |-> ok]

\* ----------------------------------------------------------------- listen
\* TcpListener::bind(&self.address).await? : Ok, or Err which ends listen().
listen_bind(n) ==
    /\ Wired(n)
    /\ lst[n] = "init"
    /\ \E ok \in BOOLEAN :
        /\ ~ok => envBudget > 0
        /\ lst' = [lst EXCEPT ![n] = IF ok THEN "listening" ELSE "failed"]
        /\ envBudget' = IF ok THEN envBudget ELSE envBudget - 1
    /\ UNCHANGED <<wiring, stores, guards, backlog, tasks, chan, router, coord,
                   nextPid, nextCall, externals, history>>

\* listener.accept() then tokio::spawn of the connection's read loop.
listen_accept(n) ==
    /\ lst[n] = "listening"
    /\ backlog[n] # <<>>
    /\ backlog' = [backlog EXCEPT ![n] = Tail(@)]
    /\ tasks' = [tasks EXCEPT ![n] =
                    @ (+) SetToBag({[data |-> Head(backlog[n]), late |-> dropped[n] > 0]})]
    /\ UNCHANGED <<wiring, stores, guards, lst, chan, router, coord,
                   nextPid, nextCall, externals, envBudget, history>>

RemoveTask(n, c) == [tasks EXCEPT ![n] = @ (-) SetToBag({c})]

\* The read loop after one read: it goes on with what the peer has written and
\* not yet been read. Once that is empty the next read returns Ok(0) and the
\* loop breaks; that read touches nothing else and is folded into this step.
ReplaceTask(n, c, d) ==
    [tasks EXCEPT ![n] = IF d.data = <<>>
                         THEN @ (-) SetToBag({c})
                         ELSE (@ (-) SetToBag({c})) (+) SetToBag({d})]

\* Mutant: the forward does not wait (try_send): into a full channel the
\* message is dropped.
conn_forward_lossy(n, c) ==
    /\ c.data # <<>>
    /\ DecodeOk(Head(c.data))
    /\ router[n].pc # "panicked"
    /\ chan' = [chan EXCEPT ![n] = IF Len(@) < capacity
                                   THEN Append(@, Decode(Head(c.data))) ELSE @]
    /\ tasks' = ReplaceTask(n, c, [c EXCEPT !.data = Tail(@)])
    /\ served' = [served EXCEPT ![n] = IF c.late THEN 1 ELSE @]
    /\ UNCHANGED <<wiring, stores, guards, lst, backlog, router, coord,
                   nextPid, nextCall, externals, envBudget,
                   sends, returned, recorded, overwrites, dropped>>

\* socket.read returned Ok(n) and the bytes decode: tx.send(message).await,
\* which waits while the channel is full.
conn_forward(n, c) ==
    /\ c.data # <<>>
    /\ DecodeOk(Head(c.data))
    /\ router[n].pc # "panicked"
    /\ Len(chan[n]) < capacity
    /\ chan' = [chan EXCEPT ![n] = Append(@, Decode(Head(c.data)))]
    /\ tasks' = ReplaceTask(n, c, [c EXCEPT !.data = Tail(@)])
    /\ served' = [served EXCEPT ![n] = IF c.late THEN 1 ELSE @]
    /\ UNCHANGED <<wiring, stores, guards, lst, backlog, router, coord,
                   nextPid, nextCall, externals, envBudget,
                   sends, returned, recorded, overwrites, dropped>>

\* tx.send fails because the receiver was dropped (the router task is gone):
\* .expect panics, which ends this spawned task only.
conn_send_failed(n, c) ==
    /\ c.data # <<>>
    /\ DecodeOk(Head(c.data))
    /\ router[n].pc = "panicked"
    /\ tasks' = RemoveTask(n, c)
    /\ UNCHANGED <<wiring, stores, guards, lst, backlog, chan, router, coord,
                   nextPid, nextCall, externals, envBudget, history>>

\* Mutant: a decode failure breaks out of the read loop.
conn_decode_failed_break(n, c) ==
    /\ c.data # <<>>
    /\ ~DecodeOk(Head(c.data))
    /\ tasks' = RemoveTask(n, c)
    /\ dropped' = [dropped EXCEPT ![n] = @ + 1]
    /\ UNCHANGED <<wiring, stores, guards, lst, backlog, chan, router, coord,
                   nextPid, nextCall, externals, envBudget,
                   sends, returned, recorded, overwrites, served>>

\* The bytes do not decode: "Failed to deserialize message", the loop goes on.
conn_decode_failed(n, c) ==
    /\ c.data # <<>>
    /\ ~DecodeOk(Head(c.data))
    /\ tasks' = ReplaceTask(n, c, [c EXCEPT !.data = Tail(@)])
    /\ dropped' = [dropped EXCEPT ![n] = @ + 1]
    /\ UNCHANGED <<wiring, stores, guards, lst, backlog, chan, router, coord,
                   nextPid, nextCall, externals, envBudget,
                   sends, returned, recorded, overwrites, served>>

\* socket.read returned Err(e): the loop breaks, what was not read is lost.
conn_read_error(n, c) ==
    /\ c.data # <<>>
    /\ envBudget > 0
    /\ envBudget' = envBudget - 1
    /\ tasks' = RemoveTask(n, c)
    /\ UNCHANGED <<wiring, stores, guards, lst, backlog, chan, router, coord,
                   nextPid, nextCall, externals, history>>

\* ----------------------------------------------- handle_incoming_messages
\* Mutant: the Acknowledgment echoes the Proposal's sender as its own.
AckMessageEcho(n, m) ==
    [sender_id |-> m.sender_id, message_type |-> "Acknowledgment",
     proposed_state |-> m.proposed_state, proposal_id |-> m.proposal_id]

\* The Acknowledgment built in the Proposal arm.
AckMessage(n, m) ==
    [sender_id |-> n, message_type |-> "Acknowledgment",
     proposed_state |-> m.proposed_state, proposal_id |-> m.proposal_id]

\* Where the Proposal arm sends it: &self.peers[&message.sender_id].
AckAddress(n, m) == peers[n][m.sender_id]

\* The value the Proposal arm stores: message.proposed_state.
\* Mutant: a hard-coded state, as in the Commit message.
OverwriteValueRunning(m) == "Running"

OverwriteValue(m) == m.proposed_state

\* Mutant: a sender already in the set is taken out of it.
RecordAckToggle(map, pid, sender) ==
    IF pid \in DOMAIN map
    THEN [map EXCEPT ![pid] = IF sender \in @ THEN @ \ {sender} ELSE @ \cup {sender}]
    ELSE [q \in DOMAIN map \cup {pid} |-> IF q = pid THEN {sender} ELSE map[q]]

\* Mutant: the set of the proposal id is replaced, not extended.
RecordAckReplace(map, pid, sender) ==
    [q \in DOMAIN map \cup {pid} |-> IF q = pid THEN {sender} ELSE map[q]]

\* The Acknowledgment arm under the tracker's lock: insert into the set of the
\* proposal id, or create the set.
RecordAck(map, pid, sender) ==
    IF pid \in DOMAIN map
    THEN [map EXCEPT ![pid] = @ \cup {sender}]
    ELSE [q \in DOMAIN map \cup {pid} |-> IF q = pid THEN {sender} ELSE map[q]]

ArmOf(m) ==
    CASE m.message_type = "Proposal" -> "proposal"
      [] m.message_type = "Acknowledgment" -> "acknowledgment"
      [] OTHER -> "commit"

\* Mutant: recv yields the newest message of the channel.
router_recv_newest(n) ==
    /\ router[n].pc = "recv"
    /\ chan[n] # <<>>
    /\ router' = [router EXCEPT ![n] = [pc |-> ArmOf(chan[n][Len(chan[n])]),
                                        msg |-> chan[n][Len(chan[n])]]]
    /\ chan' = [chan EXCEPT ![n] = SubSeq(@, 1, Len(@) - 1)]
    /\ UNCHANGED <<wiring, stores, guards, lst, backlog, tasks, coord,
                   nextPid, nextCall, externals, envBudget, history>>

\* receiver.recv().await yields the oldest message of the channel.
router_recv(n) ==
    /\ router[n].pc = "recv"
    /\ chan[n] # <<>>
    /\ router' = [router EXCEPT ![n] = [pc |-> ArmOf(Head(chan[n])), msg |-> Head(chan[n])]]
    /\ chan' = [chan EXCEPT ![n] = Tail(@)]
    /\ UNCHANGED <<wiring, stores, guards, lst, backlog, tasks, coord,
                   nextPid, nextCall, externals, envBudget, history>>

\* Mutant: a failed Acknowledgment send ends the arm, without the overwrite.
router_proposal_ack_gated(n) ==
    /\ router[n].pc = "proposal"
    /\ router[n].msg.sender_id \in DOMAIN peers[n]
    /\ \E ok \in BOOLEAN :
        /\ send_message(AckMessage(n, router[n].msg), AckAddress(n, router[n].msg), ok)
        /\ sends' = sends (+) SetToBag({SendEvent(n, 0, "ack", AckAddress(n, router[n].msg),
                                                  AckMessage(n, router[n].msg), ok)})
        /\ router' = [router EXCEPT ![n] = IF ok THEN [@ EXCEPT !.pc = "state_lock"]
                                                 ELSE [pc |-> "recv", msg |-> NoMessage]]
    /\ UNCHANGED <<wiring, stores, guards, lst, tasks, chan, coord,
                   nextPid, nextCall, externals,
                   returned, recorded, overwrites, dropped, served>>

\* Proposal arm, first half: send the Acknowledgment to the sender's address;
\* an Err is logged and the arm goes on.
router_proposal_ack(n) ==
    /\ router[n].pc = "proposal"
    /\ router[n].msg.sender_id \in DOMAIN peers[n]
    /\ \E ok \in BOOLEAN :
        /\ send_message(AckMessage(n, router[n].msg), AckAddress(n, router[n].msg), ok)
        /\ sends' = sends (+) SetToBag({SendEvent(n, 0, "ack", AckAddress(n, router[n].msg),
                                                  AckMessage(n, router[n].msg), ok)})
    /\ router' = [router EXCEPT ![n].pc = "state_lock"]
    /\ UNCHANGED <<wiring, stores, guards, lst, tasks, chan, coord,
                   nextPid, nextCall, externals,
                   returned, recorded, overwrites, dropped, served>>

\* Mutant: an unknown sender is looked up with get(): no Acknowledgment is
\* sent and the arm goes on to the overwrite.
router_proposal_unknown_skip(n) ==
    /\ router[n].pc = "proposal"
    /\ router[n].msg.sender_id \notin DOMAIN peers[n]
    /\ router' = [router EXCEPT ![n].pc = "state_lock"]
    /\ UNCHANGED <<wiring, stores, guards, transport, coord,
                   nextPid, nextCall, externals, envBudget, history>>

\* Proposal arm when the sender is no key of the PeerTable: the index panics,
\* the router task ends and its receiver is dropped.
router_proposal_unknown(n) ==
    /\ router[n].pc = "proposal"
    /\ router[n].msg.sender_id \notin DOMAIN peers[n]
    /\ router' = [router EXCEPT ![n].pc = "panicked"]
    /\ UNCHANGED <<wiring, stores, guards, transport, coord,
                   nextPid, nextCall, externals, envBudget, history>>

\* Proposal arm, second half: self.state.lock().await
router_state_lock(n) ==
    /\ router[n].pc = "state_lock"
    /\ stateGuard[StoreOf(n)] = NoTask
    /\ stateGuard' = [stateGuard EXCEPT ![StoreOf(n)] = RouterTask(n)]
    /\ router' = [router EXCEPT ![n].pc = "state_set"]
    /\ UNCHANGED <<wiring, stores, acksGuard, transport, coord,
                   nextPid, nextCall, externals, envBudget, history>>

\* *state = message.proposed_state; the guard is dropped at the end of the arm.
router_state_set(n) ==
    /\ router[n].pc = "state_set"
    /\ state' = [state EXCEPT ![StoreOf(n)] = OverwriteValue(router[n].msg)]
    /\ stateGuard' = [stateGuard EXCEPT ![StoreOf(n)] = NoTask]
    /\ overwrites' = overwrites \cup
          {[node |-> n, proposal_id |-> router[n].msg.proposal_id,
            proposed_state |-> OverwriteValue(router[n].msg)]}
    /\ router' = [router EXCEPT ![n] = [pc |-> "recv", msg |-> NoMessage]]
    /\ UNCHANGED <<wiring, acks, acksGuard, transport, coord,
                   nextPid, nextCall, externals, envBudget,
                   sends, returned, recorded, dropped, served>>

\* Acknowledgment arm: self.proposal_acknowledgments.lock().await
router_acks_lock(n) ==
    /\ router[n].pc = "acknowledgment"
    /\ acksGuard[StoreOf(n)] = NoTask
    /\ acksGuard' = [acksGuard EXCEPT ![StoreOf(n)] = RouterTask(n)]
    /\ router' = [router EXCEPT ![n].pc = "acks_insert"]
    /\ UNCHANGED <<wiring, stores, stateGuard, transport, coord,
                   nextPid, nextCall, externals, envBudget, history>>

\* Acknowledgment arm under the lock; the guard is dropped at the end of the arm.
router_acks_insert(n) ==
    /\ router[n].pc = "acks_insert"
    /\ acks' = [acks EXCEPT ![StoreOf(n)] =
                   RecordAck(@, router[n].msg.proposal_id, router[n].msg.sender_id)]
    /\ acksGuard' = [acksGuard EXCEPT ![StoreOf(n)] = NoTask]
    /\ recorded' = recorded (+) SetToBag({[router |-> n, tracker |-> StoreOf(n),
                                           proposal_id |-> router[n].msg.proposal_id,
                                           sender_id |-> router[n].msg.sender_id]})
    /\ router' = [router EXCEPT ![n] = [pc |-> "recv", msg |-> NoMessage]]
    /\ UNCHANGED <<wiring, state, stateGuard, transport, coord,
                   nextPid, nextCall, externals, envBudget,
                   sends, returned, overwrites, dropped, served>>

\* Mutant: the Commit arm applies the committed state.
router_commit_apply(n) ==
    /\ router[n].pc = "commit"
    /\ state' = [state EXCEPT ![StoreOf(n)] = router[n].msg.proposed_state]
    /\ router' = [router EXCEPT ![n] = [pc |-> "recv", msg |-> NoMessage]]
    /\ UNCHANGED <<wiring, acks, guards, transport, coord,
                   nextPid, nextCall, externals, envBudget, history>>

\* Any other message type (Commit): the `_ => {}` arm.
router_commit(n) ==
    /\ router[n].pc = "commit"
    /\ router' = [router EXCEPT ![n] = [pc |-> "recv", msg |-> NoMessage]]
    /\ UNCHANGED <<wiring, stores, guards, transport, coord,
                   nextPid, nextCall, externals, envBudget, history>>

\* ------------------------------------------------------ broadcast_proposal
\* self.peers.values(): the addresses of the PeerTable, in no fixed order.
PeerAddresses(n) == {peers[n][id] : id \in DOMAIN peers[n]}

ProposalMessage(n, pid, new_state) ==
    [sender_id |-> n, message_type |-> "Proposal",
     proposed_state |-> new_state, proposal_id |-> pid]

\* Uuid::new_v4() and the Proposal message; the loop over the peers starts.
broadcast_proposal_start(n, new_state) ==
    /\ n \in Proposers
    /\ coord[n].pc = "idle"
    /\ nextPid <= MaxProposals
    /\ coord' = [coord EXCEPT ![n] =
                   [IdleCoord EXCEPT !.pc = "broadcast", !.call = nextCall,
                                     !.proposal_id = nextPid, !.new_state = new_state,
                                     !.todo = PeerAddresses(n)]]
    /\ nextPid' = nextPid + 1
    /\ nextCall' = nextCall + 1
    /\ UNCHANGED <<wiring, stores, guards, transport, router, externals,
                   envBudget, history>>

\* One iteration of the loop: an Err is logged and the loop goes on.
broadcast_proposal_send(n, address) ==
    /\ coord[n].pc = "broadcast"
    /\ address \in coord[n].todo
    /\ \E ok \in BOOLEAN :
        /\ send_message(ProposalMessage(n, coord[n].proposal_id, coord[n].new_state), address, ok)
        /\ sends' = sends (+) SetToBag({SendEvent(n, coord[n].call, "proposal", address,
                        ProposalMessage(n, coord[n].proposal_id, coord[n].new_state), ok)})
    /\ coord' = [coord EXCEPT ![n].todo = @ \ {address}]
    /\ UNCHANGED <<wiring, stores, guards, lst, tasks, chan, router,
                   nextPid, nextCall, externals,
                   returned, recorded, overwrites, dropped, served>>

CallRecord(n, op) ==
    [node |-> n, call |-> coord[n].call, op |-> op, proposal_id |-> coord[n].proposal_id]

\* The loop is over: the proposal id is returned.
broadcast_proposal_return(n) ==
    /\ coord[n].pc = "broadcast"
    /\ coord[n].todo = {}
    /\ returned' = returned \cup {CallRecord(n, "broadcast_proposal")}
    /\ coord' = [coord EXCEPT ![n] = IdleCoord]
    /\ UNCHANGED <<wiring, stores, guards, transport, router,
                   nextPid, nextCall, externals, envBudget,
                   sends, recorded, overwrites, dropped, served>>

\* ------------------------------------------------ wait_for_acknowledgments
\* Mutant: the threshold rounded half up, (len + 1) / 2.
MajorityHalfUp(n) == (Cardinality(DOMAIN peers[n]) + 1) \div 2

\* let majority = (self.peers.len() / 2) + 1;
Majority(n) == (Cardinality(DOMAIN peers[n]) \div 2) + 1

\* Mutant: an absent entry counted as one acknowledgment, unwrap_or(1).
AckCountAbsentOne(map, pid) == IF pid \in DOMAIN map THEN Cardinality(map[pid]) ELSE 1

\* acks.get(&proposal_id).map(|acks| acks.len()).unwrap_or(0)
AckCount(map, pid) == IF pid \in DOMAIN map THEN Cardinality(map[pid]) ELSE 0

\* Mutant: the threshold test off by one.
QuorumReachedEarly(ack_count, majority) == ack_count + 1 >= majority

\* if ack_count >= majority
QuorumReached(ack_count, majority) == ack_count >= majority

\* Mutant: the Commit built from a copy of the Proposal constructor.
CommitMessageAsProposal(n, pid) ==
    [sender_id |-> n, message_type |-> "Proposal",
     proposed_state |-> "Running", proposal_id |-> pid]

CommitMessage(n, pid) ==
    [sender_id |-> n, message_type |-> "Commit",
     proposed_state |-> "Running", proposal_id |-> pid]

WaitsStarted == nextCall - nextPid

\* The call: the threshold is computed once, before the loop.
wait_start(n, pid) ==
    /\ n \in Proposers
    /\ coord[n].pc = "idle"
    /\ pid < nextPid
    /\ WaitsStarted < MaxWaits
    /\ coord' = [coord EXCEPT ![n] =
                   [IdleCoord EXCEPT !.pc = "poll", !.call = nextCall,
                                     !.proposal_id = pid, !.majority = Majority(n)]]
    /\ nextCall' = nextCall + 1
    /\ UNCHANGED <<wiring, stores, guards, transport, router, nextPid, externals,
                   envBudget, history>>

\* self.proposal_acknowledgments.lock().await
wait_lock(n) ==
    /\ coord[n].pc = "poll"
    /\ acksGuard[StoreOf(n)] = NoTask
    /\ acksGuard' = [acksGuard EXCEPT ![StoreOf(n)] = CoordTask(n)]
    /\ coord' = [coord EXCEPT ![n].pc = "count"]
    /\ UNCHANGED <<wiring, stores, stateGuard, transport, router,
                   nextPid, nextCall, externals, envBudget, history>>

\* Mutant: the tracker's guard lives to the end of the loop body, across the
\* Commit sends and the sleep.
wait_count_hold(n) ==
    /\ coord[n].pc = "count"
    /\ LET c == AckCount(acks[StoreOf(n)], coord[n].proposal_id) IN
         coord' = [coord EXCEPT ![n].ack_count = c,
                                ![n].pc = IF QuorumReached(c, coord[n].majority)
                                          THEN "commit" ELSE "sleep",
                                ![n].todo = IF QuorumReached(c, coord[n].majority)
                                            THEN PeerAddresses(n) ELSE {}]
    /\ UNCHANGED <<wiring, stores, guards, transport, router,
                   nextPid, nextCall, externals, envBudget, history>>

\* The count is read, the guard dropped, and the threshold tested.
wait_count(n) ==
    /\ coord[n].pc = "count"
    /\ acksGuard' = [acksGuard EXCEPT ![StoreOf(n)] = NoTask]
    /\ LET c == AckCount(acks[StoreOf(n)], coord[n].proposal_id) IN
         coord' = [coord EXCEPT ![n].ack_count = c,
                                ![n].pc = IF QuorumReached(c, coord[n].majority)
                                          THEN "commit" ELSE "sleep",
                                ![n].todo = IF QuorumReached(c, coord[n].majority)
                                            THEN PeerAddresses(n) ELSE {}]
    /\ UNCHANGED <<wiring, stores, stateGuard, transport, router,
                   nextPid, nextCall, externals, envBudget, history>>

\* tokio::time::sleep(100ms) is over: the loop polls again.
wait_wake(n) ==
    /\ coord[n].pc = "sleep"
    /\ coord' = [coord EXCEPT ![n].pc = "poll"]
    /\ UNCHANGED <<wiring, stores, guards, transport, router,
                   nextPid, nextCall, externals, envBudget, history>>

\* One iteration of the Commit loop: send_message(..).await.unwrap() panics
\* on an Err.
wait_commit_send(n, address) ==
    /\ coord[n].pc = "commit"
    /\ address \in coord[n].todo
    /\ \E ok \in BOOLEAN :
        /\ send_message(CommitMessage(n, coord[n].proposal_id), address, ok)
        /\ sends' = sends (+) SetToBag({SendEvent(n, coord[n].call, "commit", address,
                        CommitMessage(n, coord[n].proposal_id), ok)})
        /\ coord' = [coord EXCEPT ![n].todo = @ \ {address},
                                  ![n].pc = IF ok THEN "commit" ELSE "panicked"]
    /\ UNCHANGED <<wiring, stores, guards, lst, tasks, chan, router,
                   nextPid, nextCall, externals,
                   returned, recorded, overwrites, dropped, served>>

\* Mutant: the proposer applies its own commit to its State Store.
wait_return_apply(n) ==
    /\ coord[n].pc = "commit"
    /\ coord[n].todo = {}
    /\ state' = [state EXCEPT ![StoreOf(n)] = "Running"]
    /\ returned' = returned \cup {CallRecord(n, "wait_for_acknowledgments")}
    /\ coord' = [coord EXCEPT ![n] = IdleCoord]
    /\ UNCHANGED <<wiring, acks, guards, transport, router,
                   nextPid, nextCall, externals, envBudget,
                   sends, recorded, overwrites, dropped, served>>

\* The Commit loop is over: break, and the call returns.
wait_return(n) ==
    /\ coord[n].pc = "commit"
    /\ coord[n].todo = {}
    /\ returned' = returned \cup {CallRecord(n, "wait_for_acknowledgments")}
    /\ coord' = [coord EXCEPT ![n] = IdleCoord]
    /\ UNCHANGED <<wiring, stores, guards, transport, router,
                   nextPid, nextCall, externals, envBudget,
                   sends, recorded, overwrites, dropped, served>>

\* ------------------------------------------------------- other connections
\* What a caller outside the coordinator may write to a node's address: a
\* hand-built Message through send_message (as the tests do), bytes that are
\* no Message, or both on one connection.
\* The hand-built messages: a Proposal or an Acknowledgment for a minted id, or
\* an Acknowledgment for an id of the caller's own, from any sender but the
\* node they are sent to.
ExternalMessages(n) ==
    {m \in Message : /\ m.sender_id # n
                     /\ m.proposal_id < nextPid
                     /\ m.proposed_state = "Stopped"
                     /\ m.message_type \in {"Proposal", "Acknowledgment"}
                     /\ m.proposal_id = HandBuiltId => m.message_type = "Acknowledgment"}

ExternalPayloads(n) ==
    {<<BadVariant>>}
        \cup {<<Encode(m)>> : m \in ExternalMessages(n)}
        \cup {<<Garbage, Encode(m)>> : m \in ExternalMessages(n)}

\* Hand-built traffic is exercised on the two-node wiring, as the tests do.
OutsideAllowed == Cardinality({n \in Node : Wired(n)}) = 2

external_send(n, data) ==
    /\ lst[n] = "listening"
    /\ OutsideAllowed
    /\ envBudget > 0
    /\ data \in ExternalPayloads(n)
    /\ backlog' = [backlog EXCEPT ![n] = Append(@, data)]
    /\ externals' = externals + 1
    /\ envBudget' = envBudget - 1
    /\ UNCHANGED <<wiring, stores, guards, lst, tasks, chan, router, coord,
                   nextPid, nextCall, history>>

\* ---------------------------------------------------------- specification
Next ==
    \/ \E n \in Node : listen_bind(n)
    \/ \E n \in Node : listen_accept(n)
    \/ \E n \in Node : \E c \in BagToSet(tasks[n]) : conn_forward(n, c)
    \/ \E n \in Node : \E c \in BagToSet(tasks[n]) : conn_send_failed(n, c)
    \/ \E n \in Node : \E c \in BagToSet(tasks[n]) : conn_decode_failed(n, c)
    \/ \E n \in Node : \E c \in BagToSet(tasks[n]) : conn_read_error(n, c)
    \/ \E n \in Node : router_recv(n)
    \/ \E n \in Node : router_proposal_ack(n)
    \/ \E n \in Node : router_proposal_unknown(n)
    \/ \E n \in Node : router_state_lock(n)
    \/ \E n \in Node : router_state_set(n)
    \/ \E n \in Node : router_acks_lock(n)
    \/ \E n \in Node : router_acks_insert(n)
    \/ \E n \in Node : router_commit(n)
    \/ \E n \in Node : \E s \in Proposable : broadcast_proposal_start(n, s)
    \/ \E n \in Node : \E a \in coord[n].todo : broadcast_proposal_send(n, a)
    \/ \E n \in Node : broadcast_proposal_return(n)
    \/ \E n \in Node : \E p \in 1..MaxProposals : wait_start(n, p)
    \/ \E n \in Node : wait_lock(n)
    \/ \E n \in Node : wait_count(n)
    \/ \E n \in Node : wait_wake(n)
    \/ \E n \in Node : \E a \in coord[n].todo : wait_commit_send(n, a)
    \/ \E n \in Node : wait_return(n)
    \/ \E n \in Node : \E d \in ExternalPayloads(n) : external_send(n, d)

Spec == Init /\ [][Next]_vars

\* The scheduling the runtime gives the tasks of a wait_for_acknowledgments
\* call: the polling loop is a task the runtime keeps running (its sleep ends,
\* its sends complete), the tracker's mutex is fair (tokio's Mutex is FIFO), and
\* a router that holds the tracker's guard runs on to release it.
FairSpec ==
    /\ Spec
    /\ \A n \in Proposers :
          /\ SF_vars(wait_lock(n))
          /\ WF_vars(wait_count(n))
          /\ WF_vars(wait_wake(n))
          /\ WF_vars(\E a \in coord[n].todo : wait_commit_send(n, a))
          /\ WF_vars(wait_return(n))
    /\ \A n \in Node : WF_vars(router_acks_insert(n))

\* ------------------------------------------------------------------ claims
\* The set of a proposal id in the tracker a node polls, empty when absent.
Tracked(n, pid) ==
    IF pid \in DOMAIN acks[StoreOf(n)] THEN acks[StoreOf(n)][pid] ELSE {}

PeerCount(n) == Cardinality(DOMAIN peers[n])

Waiting(n) == coord[n].pc \in {"poll", "count", "sleep"}

InWait(n) == coord[n].pc \in {"poll", "count", "sleep", "commit"}

CommitEvents(n, pid) ==
    {e \in BagToSet(sends) : e.kind = "commit" /\ e.node = n /\ e.msg.proposal_id = pid}

\* C1: wait_for_acknowledgments sends a Commit for a proposal id only after it
\* has read from the tracker a set for that id with at least floor(P/2)+1
\* members: every step that sends a Commit is taken by a call whose last read
\* count is at least the threshold, while the tracker holds at least that many
\* senders for the id.
C1_CommitOnlyAfterQuorum ==
    [][\A e \in BagToSet(sends') :
          (e.kind = "commit" /\ CopiesIn(e, sends') > CopiesIn(e, sends)) =>
              /\ e.msg.proposal_id = coord[e.node].proposal_id
              /\ coord[e.node].ack_count >= (PeerCount(e.node) \div 2) + 1
              /\ Cardinality(Tracked(e.node, e.msg.proposal_id)) >= (PeerCount(e.node) \div 2) + 1]_vars

C1_Witness ==
    \E e \in BagToSet(sends) :
        /\ e.kind = "commit"
        /\ e.ok
        /\ Cardinality(Tracked(e.node, e.msg.proposal_id)) = 2

\* C2: the threshold a wait_for_acknowledgments call uses is floor(P/2)+1 for
\* its node's peer count P, the least m with 2m > P; with one peer it is 1.
C2_MajorityThreshold ==
    \A n \in Node :
        InWait(n) =>
            /\ 2 * coord[n].majority > PeerCount(n)
            /\ 2 * (coord[n].majority - 1) <= PeerCount(n)
            /\ (PeerCount(n) = 1 => coord[n].majority = 1)

C2_Witness ==
    \E n \in Node : InWait(n) /\ PeerCount(n) = 2 /\ coord[n].majority = 2

\* C10: while the tracked count of a proposal id is below the threshold, a
\* wait_for_acknowledgments call on that id is still in its polling loop (it
\* has not returned, timed out or failed) and no Commit for the id has been
\* sent by that node.
C10_BlocksWithoutQuorum ==
    \A n \in Node : \A pid \in 1..MaxProposals :
        Cardinality(Tracked(n, pid)) < (PeerCount(n) \div 2) + 1 =>
            /\ CommitEvents(n, pid) = {}
            /\ \A r \in returned :
                  ~(r.node = n /\ r.op = "wait_for_acknowledgments" /\ r.proposal_id = pid)
            /\ (coord[n].proposal_id = pid /\ coord[n].majority > 0) => Waiting(n)

C10_Witness ==
    \E n \in Node :
        /\ coord[n].pc = "sleep"
        /\ Tracked(n, coord[n].proposal_id) = {}
        /\ \E e \in BagToSet(sends) : e.kind = "proposal" /\ e.node = n /\ ~e.ok

\* A two-node system: a and b are each other's sole peer.
TwoNode(a, b) == a # b /\ DOMAIN peers[a] = {b} /\ DOMAIN peers[b] = {a}

\* The states node a has proposed under a proposal id.
ProposedBy(a, pid) ==
    {e.msg.proposed_state :
        e \in {x \in BagToSet(sends) :
                  x.kind = "proposal" /\ x.node = a /\ x.msg.proposal_id = pid}}

QuorumAt(a, pid) == Cardinality(Tracked(a, pid)) >= (PeerCount(a) \div 2) + 1

HandlingOverwrite(b, pid, S) ==
    /\ router[b].pc \in {"state_lock", "state_set"}
    /\ router[b].msg.proposal_id = pid
    /\ router[b].msg.proposed_state = S

\* C3 as stated: in a two-node system with no other traffic, at the step at
\* which A's tracked count for its proposal first reaches the threshold, B's
\* state already equals the proposed state.
C3_StateBeforeQuorum ==
    [][\A a \in Node : \A b \in Node : \A pid \in 1..MaxProposals : \A S \in State :
          (/\ TwoNode(a, b) /\ externals' = 0 /\ S \in ProposedBy(a, pid)
           /\ ~QuorumAt(a, pid) /\ QuorumAt(a, pid)')
              => state'[StoreOf(b)] = S]_vars

\* C3, amended: at the step at which A's tracked count first reaches the
\* threshold, B's router has already received the Proposal and sent its
\* Acknowledgment, and it either has overwritten its state with the proposed
\* state (which B's state then equals while that is the only proposal) or is
\* in the same handler with the overwrite as its next operation.
C3_AckThenOverwrite ==
    [][\A a \in Node : \A b \in Node : \A pid \in 1..MaxProposals : \A S \in State :
          (/\ TwoNode(a, b) /\ externals' = 0 /\ S \in ProposedBy(a, pid)
           /\ ~QuorumAt(a, pid) /\ QuorumAt(a, pid)')
              => /\ \E e \in BagToSet(sends) :
                       /\ e.kind = "ack" /\ e.node = b /\ e.ok
                       /\ e.msg.proposal_id = pid
                 /\ \/ HandlingOverwrite(b, pid, S)
                    \/ /\ [node |-> b, proposal_id |-> pid, proposed_state |-> S] \in overwrites
                       /\ nextPid = 2 => state'[StoreOf(b)] = S]_vars

C3_Witness ==
    \E a \in Node : \E b \in Node : \E pid \in 1..MaxProposals : \E S \in State :
        /\ TwoNode(a, b) /\ externals = 0 /\ S \in ProposedBy(a, pid)
        /\ QuorumAt(a, pid)
        /\ HandlingOverwrite(b, pid, S)
        /\ state[StoreOf(b)] # S

\* C4: handling a Proposal from a sender of the PeerTable sends (attempts)
\* exactly one message: an Acknowledgment to the PeerTable address of the
\* Proposal's sender, with the node's own id as sender and the Proposal's
\* proposal_id and proposed_state; the rest of the Proposal arm, and the
\* Acknowledgment and Commit arms, send nothing.
C4_OneAckPerProposal ==
    [][\A n \in Node :
          LET m == router[n].msg IN
          /\ (/\ router[n].pc = "proposal" /\ router'[n].pc # "proposal"
              /\ m.sender_id \in DOMAIN peers[n])
                => \E ok \in BOOLEAN :
                      sends' = sends (+) SetToBag({
                          [node |-> n, call |-> 0, kind |-> "ack",
                           to |-> peers[n][m.sender_id],
                           msg |-> [sender_id |-> n, message_type |-> "Acknowledgment",
                                    proposed_state |-> m.proposed_state,
                                    proposal_id |-> m.proposal_id],
                           ok |-> ok]})
          /\ (/\ router[n].pc \in {"state_lock", "state_set", "acknowledgment",
                                   "acks_insert", "commit"}
              /\ router'[n] # router[n])
                => sends' = sends /\ backlog' = backlog]_vars

C4_Witness ==
    \E e \in BagToSet(sends) :
        /\ e.kind = "ack" /\ e.ok
        /\ router[e.node].pc = "state_lock"
        /\ router[e.node].msg.proposal_id = e.msg.proposal_id

\* C6: handling an Acknowledgment from a sender already in the set of its
\* proposal id leaves the whole tracker unchanged; handling any Acknowledgment
\* leaves the sets of all other proposal ids, and all other trackers, unchanged.
C6_AckIdempotent ==
    [][\A n \in Node :
          (router[n].pc = "acks_insert" /\ router'[n].pc # "acks_insert") =>
              LET m == router[n].msg
                  before == acks[StoreOf(n)]
                  after == acks'[StoreOf(n)]
              IN /\ (m.proposal_id \in DOMAIN before /\ m.sender_id \in before[m.proposal_id])
                        => after = before
                 /\ DOMAIN after = DOMAIN before \cup {m.proposal_id}
                 /\ \A q \in DOMAIN before \ {m.proposal_id} : after[q] = before[q]
                 /\ \A t \in Node \ {StoreOf(n)} : acks'[t] = acks[t]]_vars

C6_Witness ==
    \E r \in BagToSet(recorded) :
        /\ CopiesIn(r, recorded) >= 2
        /\ acks[r.tracker][r.proposal_id] = {r.sender_id}

\* The senders whose Acknowledgments for a proposal id have been handled by the
\* routers that share a tracker.
HandledSenders(t, pid) ==
    {r.sender_id : r \in {x \in BagToSet(recorded) : x.tracker = t /\ x.proposal_id = pid}}

\* C7: no acknowledgment is lost: in every state the tracked count of a
\* proposal id is the number of distinct senders whose Acknowledgments for it
\* have been handled by the routers sharing the tracker, whatever the
\* interleaving of those routers and of the coordinator's reads.
C7_NoLostAck ==
    \A t \in Node : \A pid \in ProposalId :
        AckCount(acks[t], pid) = Cardinality(HandledSenders(t, pid))

C7_Witness ==
    \E r1 \in BagToSet(recorded) : \E r2 \in BagToSet(recorded) :
        /\ r1.tracker = r2.tracker /\ r1.proposal_id = r2.proposal_id
        /\ r1.router # r2.router /\ r1.sender_id # r2.sender_id
        /\ AckCount(acks[r1.tracker], r1.proposal_id) = 2
        /\ \E n \in Node : coord[n].pc = "sleep" /\ StoreOf(n) = r1.tracker

\* C8 as stated: a failed send in either broadcast does not stop the
\* operation: the call goes on with the remaining peers and returns, and a
\* call that returned has attempted a send to every peer.
C8_BestEffortBroadcast ==
    /\ \A n \in Node :
          (\E e \in BagToSet(sends) :
              /\ e.kind \in {"proposal", "commit"}
              /\ e.node = n /\ e.call = coord[n].call /\ ~e.ok)
              => coord[n].pc \in {"broadcast", "commit"}
    /\ \A r \in returned : \A a \in PeerAddresses(r.node) :
          \E e \in BagToSet(sends) : e.node = r.node /\ e.call = r.call /\ e.to = a

\* C9: a read that fails to decode forwards nothing to the router and changes
\* neither store; the read loop of that connection goes on with what is left
\* to read; the listener stays bound, and accepts whatever connection waits.
C9_DecodeFailureIsolated ==
    /\ [][\A n \in Node :
            dropped'[n] > dropped[n] =>
                /\ chan' = chan /\ router' = router
                /\ state' = state /\ acks' = acks
                /\ lst' = lst /\ backlog' = backlog
                /\ \E c \in BagToSet(tasks[n]) :
                      /\ c.data # <<>> /\ ~DecodeOk(Head(c.data))
                      /\ Tail(c.data) # <<>> =>
                            CopiesIn([c EXCEPT !.data = Tail(@)], tasks'[n])
                              > CopiesIn([c EXCEPT !.data = Tail(@)], tasks[n])]_vars
    /\ [](\A n \in Node :
            dropped[n] > 0 =>
                /\ lst[n] = "listening"
                /\ backlog[n] # <<>> => ENABLED listen_accept(n))

C9_Witness ==
    \E n \in Node :
        /\ dropped[n] > 0 /\ served[n] = 1
        /\ \E e \in BagToSet(sends) : e.node = n /\ e.kind = "ack"

CallIds == 1..(MaxProposals + MaxWaits)

WaitReturned(n, c, pid) ==
    [node |-> n, call |-> c, op |-> "wait_for_acknowledgments", proposal_id |-> pid]
        \in returned

\* Reliable delivery from now on: no I/O failure is left to come and every
\* peer of the node has its listener bound.
Reliable(n) == envBudget = 0 /\ \A a \in PeerAddresses(n) : CanConnect(a)

\* C5: on a node with one peer and reliable delivery, once the peer's
\* Acknowledgment for the proposal of a running wait_for_acknowledgments call is
\* in the tracker the call eventually returns; and a call that returned on a
\* node with one peer has sent exactly one message, a Commit for the proposal,
\* to that peer.
C5_WaitReturnsAfterAck ==
    /\ \A n \in Proposers : \A c \in CallIds : \A pid \in 1..MaxProposals :
          (/\ PeerCount(n) = 1 /\ Reliable(n)
           /\ InWait(n) /\ coord[n].call = c /\ coord[n].proposal_id = pid
           /\ DOMAIN peers[n] \subseteq Tracked(n, pid))
              ~> WaitReturned(n, c, pid)
    /\ [](\A r \in returned :
            (r.op = "wait_for_acknowledgments" /\ PeerCount(r.node) = 1) =>
                LET ev == {e \in BagToSet(sends) : e.node = r.node /\ e.call = r.call} IN
                /\ Cardinality(ev) = 1
                /\ \A e \in ev :
                      /\ CopiesIn(e, sends) = 1
                      /\ e.ok
                      /\ e.msg.message_type = "Commit"
                      /\ e.msg.proposal_id = r.proposal_id
                      /\ e.to \in PeerAddresses(r.node))

C5_Witness ==
    \E r \in returned :
        /\ r.op = "wait_for_acknowledgments"
        /\ PeerCount(r.node) = 1
        /\ externals = 0 /\ envBudget = 0
        /\ DOMAIN peers[r.node] \subseteq Tracked(r.node, r.proposal_id)


\* ------------------------------------------------------------ convergence
\* The scheduling the runtime gives the tasks that carry a Proposal to a
\* peer's State Store: the broadcast loop of the call in progress, and on the
\* receiving node the accept loop, the spawned read loops and the router
\* task. The runtime keeps running whichever of them can take a step; every
\* one of these steps consumes something (a connection, a chunk, a message,
\* a position in the handler), so none of them can starve another for ever.
ReceivePath(n) ==
    \/ listen_accept(n)
    \/ \E c \in BagToSet(tasks[n]) : conn_forward(n, c)
    \/ router_recv(n)
    \/ router_proposal_ack(n)
    \/ router_state_lock(n)
    \/ router_state_set(n)

DeliveryFairSpec ==
    /\ Spec
    /\ \A n \in Proposers :
          WF_vars(\E a \in coord[n].todo : broadcast_proposal_send(n, a))
    /\ \A n \in Node : WF_vars(ReceivePath(n))

\* Node a is inside broadcast_proposal(S), with its sole peer b still to be
\* sent the Proposal.
Proposing(a, b, S) ==
    /\ coord[a].pc = "broadcast"
    /\ coord[a].new_state = S
    /\ peers[a][b] \in coord[a].todo

\* C11: in a two-node system with reliable delivery and no other proposal,
\* once node A broadcasts its proposal of S the peer's State Store eventually
\* equals S; and it stays S: whenever the peer has done the overwrite of the
\* only proposal made, its State Store equals the proposed state, up to and
\* after the return of A's wait_for_acknowledgments call.
C11_Convergence ==
    /\ \A a \in Proposers : \A b \in Node \ {a} : \A S \in Proposable :
          (/\ TwoNode(a, b) /\ externals = 0 /\ Reliable(a)
           /\ Proposing(a, b, S))
              ~> (state[StoreOf(b)] = S)
    /\ [](\A a \in Proposers : \A b \in Node : \A o \in overwrites :
            (/\ TwoNode(a, b) /\ externals = 0 /\ nextPid = 2
             /\ o.node = b /\ o.proposed_state \in ProposedBy(a, o.proposal_id))
                => state[StoreOf(b)] = o.proposed_state)

C11_Witness ==
    \E r \in returned : \E b \in Node : \E o \in overwrites :
        /\ r.op = "wait_for_acknowledgments"
        /\ TwoNode(r.node, b) /\ externals = 0 /\ envBudget = 0
        /\ o.node = b /\ o.proposal_id = r.proposal_id
        /\ o.proposed_state = "Stopped"
        /\ state[StoreOf(b)] = "Stopped"


\* --------------------------------------------------- forward into channel
\* C12 as stated: a read loop's failure to forward a decoded Message into the
\* inbound channel (the receiver is gone) terminates the node: with that step
\* the listener stops, so it accepts no further connection.
C12_ForwardFailureFatal ==
    [][\A n \in Node :
          (\E c \in BagToSet(tasks[n]) : conn_send_failed(n, c))
              => lst'[n] # "listening"]_vars


\* ----------------------------------------------------------- router order
\* The router is between recv and the end of an arm.
Handling(n) == router[n].pc \notin {"recv", "panicked"}

Enqueued(n) ==
    /\ Len(chan'[n]) = Len(chan[n]) + 1
    /\ SubSeq(chan'[n], 1, Len(chan[n])) = chan[n]

Dequeued(n) ==
    /\ chan[n] # <<>>
    /\ chan'[n] = Tail(chan[n])

\* C13: the router handles the messages of its channel strictly in the order
\* they were enqueued, one at a time, each exactly once. Every change of the
\* channel is an enqueue at its end, which leaves the router where it is, or
\* the dequeue of its oldest message by a router that has finished the
\* previous message, and that message becomes the one in hand; the message in
\* hand changes only by such a dequeue or by the end of its arm, and an arm
\* ends only with its effect done (the Proposal's state overwrite after its
\* Acknowledgment send, the Acknowledgment's tracker insert).
C13_RouterFifo ==
    [][\A n \in Node :
          /\ chan'[n] # chan[n] =>
                \/ Enqueued(n) /\ router'[n] = router[n]
                \/ /\ Dequeued(n)
                   /\ router[n] = [pc |-> "recv", msg |-> NoMessage]
                   /\ router'[n].msg = Head(chan[n])
                   /\ Handling(n)'
          /\ router'[n].msg # router[n].msg =>
                \/ Dequeued(n) /\ router'[n].msg = Head(chan[n])
                \/ Handling(n) /\ router'[n] = [pc |-> "recv", msg |-> NoMessage]
          /\ (Handling(n) /\ router'[n].pc = "recv") =>
                LET m == router[n].msg IN
                /\ m.message_type = "Proposal" =>
                      /\ state'[StoreOf(n)] = m.proposed_state
                      /\ \E e \in BagToSet(sends) :
                            /\ e.kind = "ack" /\ e.node = n
                            /\ e.msg.proposal_id = m.proposal_id
                /\ m.message_type = "Acknowledgment" =>
                      m.sender_id \in acks'[StoreOf(n)][m.proposal_id]]_vars

\* Two different messages wait in a router's channel while it handles a third
\* or is about to receive: the order of the two is the order of their handling.
C13_Witness ==
    \E n \in Node :
        /\ Len(chan[n]) >= 2
        /\ chan[n][1] # chan[n][2]
        /\ router[n].pc # "panicked"


\* ------------------------------------------------------------- commit arm
\* C14: handling a Commit is a no-op on the receiver. A dequeued Commit,
\* whatever it carries, is taken by the arm that does nothing, and the step of
\* that arm leaves every State Store and every tracker set as they were, sends
\* nothing (no send attempt, no new connection), and returns the router to
\* recv.
C14_CommitNoOp ==
    [][\A n \in Node :
          /\ (Handling(n)' /\ router'[n].msg.message_type = "Commit") =>
                router'[n].pc = "commit"
          /\ (router[n].msg.message_type = "Commit" /\ router'[n] # router[n]) =>
                /\ router'[n] = [pc |-> "recv", msg |-> NoMessage]
                /\ UNCHANGED <<state, acks, sends, backlog, stateGuard, acksGuard>>]_vars

\* A Commit carrying Running was delivered to, and handled by, a node whose
\* State Store holds Stopped: nothing of the delivery is left in the
\* listener, the read loops or the channel, and no failure was injected.
C14_Witness ==
    \E n \in Node : \E e \in BagToSet(sends) :
        /\ e.kind = "commit" /\ e.ok /\ ListenerAt(e.to) = n
        /\ envBudget = MaxEnvEvents
        /\ backlog[n] = <<>> /\ tasks[n] = EmptyBag /\ chan[n] = <<>>
        /\ router[n] = [pc |-> "recv", msg |-> NoMessage]
        /\ state[StoreOf(n)] = "Stopped"
        /\ e.msg.proposed_state # state[StoreOf(n)]


\* ---------------------------------------------------------- proposal arm
\* C15: Proposal handling overwrites the State Store unconditionally. A
\* Proposal from a sender of the PeerTable goes from the Acknowledgment send
\* to the state lock whether the send succeeded or failed, from the lock to
\* the write, and the write leaves the State Store equal to that Proposal's
\* proposed_state, whatever it held and whatever the proposal's id; so of two
\* Proposals the one the router handles last decides the state, even when it
\* was made first.
C15_UnconditionalOverwrite ==
    [][\A n \in Node :
          LET m == router[n].msg IN
          /\ (/\ router[n].pc = "proposal" /\ m.sender_id \in DOMAIN peers[n]
              /\ router'[n] # router[n]) =>
                 router'[n] = [pc |-> "state_lock", msg |-> m]
          /\ (router[n].pc = "state_lock" /\ router'[n] # router[n]) =>
                 router'[n] = [pc |-> "state_set", msg |-> m]
          /\ (router[n].pc = "state_set" /\ router'[n] # router[n]) =>
                 /\ state'[StoreOf(n)] = m.proposed_state
                 /\ router'[n] = [pc |-> "recv", msg |-> NoMessage]]_vars

\* A router has overwritten its State Store for two Proposals carrying
\* different states, one of them after its Acknowledgment send had failed, and
\* the store holds Running, over the Stopped it held before.
C15_Witness ==
    \E n \in Node : \E o1 \in overwrites : \E o2 \in overwrites :
        /\ o1.node = n /\ o2.node = n
        /\ o1.proposed_state = "Stopped" /\ o2.proposed_state = "Running"
        /\ \E e \in BagToSet(sends) : e.kind = "ack" /\ e.node = n /\ ~e.ok
        /\ ~shared
        /\ state[n] = "Running"


\* ----------------------------------------------------------------- guards
\* The tasks that take the guards.
GuardTasks == {RouterTask(n) : n \in Node} \cup {CoordTask(n) : n \in Node}

StateGuardsOf(t) == {s \in Node : stateGuard[s] = t}

AcksGuardsOf(t) == {s \in Node : acksGuard[s] = t}

\* C16: no task holds a State Store guard and a tracker guard at the same
\* time; a guard is held only between its lock and the end of the block that
\* took it (the router's state write, the router's tracker insert, the
\* coordinator's count read), so never at a network send, in the polling
\* sleep, or by a task that panicked; the holder of a guard can always take
\* the step that releases it, so no interleaving deadlocks on the guards; and
\* while a coordinator is between polls a router that has an Acknowledgment
\* to record can take the tracker's lock, or the router that holds it can
\* finish.
C16_GuardsDisjoint ==
    /\ \A t \in GuardTasks : StateGuardsOf(t) = {} \/ AcksGuardsOf(t) = {}
    /\ \A n \in Node :
          /\ StateGuardsOf(RouterTask(n)) =
                IF router[n].pc = "state_set" THEN {StoreOf(n)} ELSE {}
          /\ AcksGuardsOf(RouterTask(n)) =
                IF router[n].pc = "acks_insert" THEN {StoreOf(n)} ELSE {}
          /\ AcksGuardsOf(CoordTask(n)) =
                IF coord[n].pc = "count" THEN {StoreOf(n)} ELSE {}
          /\ StateGuardsOf(CoordTask(n)) = {}
    /\ \A s \in Node :
          /\ stateGuard[s] \in GuardTasks \cup {NoTask}
          /\ acksGuard[s] \in GuardTasks \cup {NoTask}
          /\ \A n \in Node :
                /\ stateGuard[s] = RouterTask(n) => ENABLED router_state_set(n)
                /\ acksGuard[s] = RouterTask(n) => ENABLED router_acks_insert(n)
                /\ acksGuard[s] = CoordTask(n) => ENABLED wait_count(n)
    /\ \A n \in Node : \A r \in Node :
          (/\ coord[n].pc = "sleep" /\ StoreOf(r) = StoreOf(n)
           /\ router[r].pc = "acknowledgment") =>
              \/ ENABLED router_acks_lock(r)
              \/ \E q \in Node \ {r} : ENABLED router_acks_insert(q)

\* A coordinator sleeps between polls while a router that shares its tracker
\* holds the tracker's guard to record an Acknowledgment, and another router
\* holds a State Store guard.
C16_Witness ==
    \E n \in Node : \E r \in Node : \E q \in Node :
        /\ coord[n].pc = "sleep"
        /\ acksGuard[StoreOf(n)] = RouterTask(r)
        /\ StateGuardsOf(RouterTask(q)) # {}


\* --------------------------------------------------------- commit message
\* C17 as stated: every Commit that wait_for_acknowledgments sends carries the
\* node's own id as sender, the proposal id of the call, and as proposed_state
\* the state the node proposed under that id.
C17_CommitCarriesProposedState ==
    \A e \in BagToSet(sends) :
        e.kind = "commit" =>
            /\ e.msg.message_type = "Commit"
            /\ e.msg.sender_id = e.node
            /\ ProposedBy(e.node, e.msg.proposal_id) # {} =>
                  e.msg.proposed_state \in ProposedBy(e.node, e.msg.proposal_id)


\* --------------------------------------------------------- unknown sender
RouterEffects(n) ==
    <<{o \in overwrites : o.node = n},
      {x \in BagToSet(recorded) : x.router = n},
      [e \in {x \in BagToSet(sends) : x.kind = "ack" /\ x.node = n} |-> CopiesIn(e, sends)]>>

\* C18: a Proposal whose sender is no key of the receiver's PeerTable makes
\* the router fail at the address lookup: that step sends no Acknowledgment
\* and writes no store, and it ends the router task; from then on the router
\* takes nothing from its channel, so what was enqueued after the Proposal
\* stays unhandled, and it overwrites no state, records no Acknowledgment and
\* sends nothing.
C18_UnknownSenderStopsRouter ==
    [][\A n \in Node :
          /\ (/\ router[n].pc = "proposal"
              /\ router[n].msg.sender_id \notin DOMAIN peers[n]
              /\ router'[n] # router[n]) =>
                 /\ router'[n] = [pc |-> "panicked", msg |-> router[n].msg]
                 /\ UNCHANGED <<state, acks, sends, backlog, overwrites, recorded>>
          /\ router[n].pc = "panicked" =>
                 /\ router'[n] = router[n]
                 /\ chan'[n] = chan[n]
                 /\ RouterEffects(n)' = RouterEffects(n)
                 /\ (~shared) => (state'[n] = state[n] /\ acks'[n] = acks[n])]_vars

\* A router stopped by a Proposal from an unknown sender: it sent no
\* Acknowledgment, its store does not hold the Proposal's state, and a message
\* enqueued behind the Proposal is left in its channel.
C18_Witness ==
    \E n \in Node :
        /\ router[n].pc = "panicked"
        /\ router[n].msg.sender_id \notin DOMAIN peers[n]
        /\ chan[n] # <<>>
        /\ state[StoreOf(n)] # router[n].msg.proposed_state
        /\ \A e \in BagToSet(sends) : ~(e.kind = "ack" /\ e.node = n)


\* ------------------------------------------------------ writers of stores
\* C19: the coordinator operations never write the stores. Every step of a
\* broadcast_proposal or wait_for_acknowledgments call leaves every State
\* Store and every tracker as it was; a State Store changes only by the write
\* of a router's Proposal arm, to that Proposal's state, and a tracker only by
\* the insert of a router's Acknowledgment arm; so a node whose State Store
\* is its own and whose router has overwritten nothing still holds its
\* initial state, also after its own proposal was acknowledged and committed.
C19_CoordinatorFrame ==
    /\ [][/\ \A n \in Node : coord'[n] # coord[n] => UNCHANGED <<state, acks>>
          /\ state' # state =>
                \E n \in Node :
                    /\ router[n].pc = "state_set"
                    /\ router[n].msg.message_type = "Proposal"
                    /\ router'[n].pc = "recv"
                    /\ state' = [state EXCEPT ![StoreOf(n)] = router[n].msg.proposed_state]
          /\ acks' # acks =>
                \E n \in Node :
                    /\ router[n].pc = "acks_insert"
                    /\ router[n].msg.message_type = "Acknowledgment"
                    /\ router'[n].pc = "recv"
                    /\ \A t \in Node \ {StoreOf(n)} : acks'[t] = acks[t]]_vars
    /\ [](\A n \in Node :
            (~shared /\ \A o \in overwrites : o.node # n) => state[n] = "Init")

\* A proposer with a State Store of its own returned from
\* wait_for_acknowledgments after its proposal was acknowledged and the
\* Commit sent: its peer holds the proposed state, and it holds its initial
\* state.
C19_Witness ==
    \E r \in returned : \E e \in BagToSet(sends) : \E b \in Node :
        /\ r.op = "wait_for_acknowledgments"
        /\ ~shared
        /\ e.kind = "commit" /\ e.ok /\ e.node = r.node /\ e.call = r.call
        /\ b \in Tracked(r.node, r.proposal_id)
        /\ state[b] \in ProposedBy(r.node, r.proposal_id)
        /\ state[r.node] = "Init"


\* ----------------------------------------------------------- backpressure
\* The wiring with the smallest channel, mpsc::channel(1): every second
\* message a node is sent meets a full channel.
BackpressureSpec == InitWith(1) /\ [][Next]_vars

\* The messages a router has still to finish: those in its channel and the
\* one in hand.
Pending(n) == Len(chan[n]) + (IF Handling(n) THEN 1 ELSE 0)

\* A read loop whose next chunk decodes as a Message.
DecodableHead(c) == c.data # <<>> /\ DecodeOk(Head(c.data))

\* C20: the inbound channel never holds more messages than its capacity, and
\* no decoded Message is dropped because the channel is full. A read loop
\* gives up a chunk that decodes only by appending the Message to a channel
\* that has room (or because the receiver is gone, or the read itself
\* failed), so in front of a full channel it waits; the channel changes only
\* by such an append or by the router's dequeue of its head; and the number of
\* messages a running router has still to finish goes up by one with each
\* forward and down by one only when the router ends the arm of the message in
\* hand: every forwarded Message is handled exactly once.
C20_Backpressure ==
    /\ [](\A n \in Node : Len(chan[n]) <= capacity)
    /\ [][\A n \in Node :
            /\ \A c \in BagToSet(tasks[n]) :
                  (DecodableHead(c) /\ CopiesIn(c, tasks'[n]) < CopiesIn(c, tasks[n])) =>
                      \/ /\ Len(chan[n]) < capacity
                         /\ chan'[n] = Append(chan[n], Decode(Head(c.data)))
                      \/ router[n].pc = "panicked"
                      \/ envBudget' < envBudget
            /\ chan'[n] # chan[n] =>
                  \/ Enqueued(n) /\ Pending(n)' = Pending(n) + 1
                  \/ /\ Dequeued(n) /\ Pending(n)' = Pending(n)
                     /\ router'[n].msg = Head(chan[n])
            /\ Pending(n)' # Pending(n) =>
                  \/ Enqueued(n) /\ Pending(n)' = Pending(n) + 1
                  \/ /\ Handling(n) /\ ~Handling(n)'
                     /\ Pending(n)' = Pending(n) - 1
                     /\ chan'[n] = chan[n]]_vars

\* A read loop holds a decoded Message in front of a full channel whose router
\* runs.
C20_Witness ==
    \E n \in Node : \E c \in BagToSet(tasks[n]) :
        /\ Len(chan[n]) = capacity
        /\ DecodableHead(c)
        /\ router[n].pc # "panicked"

====
